---- MODULE Spec2Model ----
(***************************************************************************)
(* A model of the fetch-and-aggregate engine of scraping_charger_data:     *)
(* base_scraper (src/scrapers/with_requests/base_scraper.py) and its       *)
(* requests-based subclass scraper (scrape_prices_with_api.py).            *)
(*                                                                         *)
(* One scraper object is constructed from caller-supplied arguments and    *)
(* then run once with some worker count.  A run is either the direct call  *)
(* of query_urls on the whole identifier list (max_workers == 1) or the    *)
(* thread-pool path of query_urls_parallel, whose workers interleave       *)
(* freely.  Every fetch ends in one of four ways: a payload, a Timeout, a  *)
(* RequestException that is no Timeout, or an exception outside the        *)
(* requests hierarchy.                                                     *)
(***************************************************************************)
EXTENDS Integers, Sequences, FiniteSets, TLC

(* ---------------------------- bounds ----------------------------------- *)

\* longest identifier list handed to the constructor
MaxN == 3
\* largest worker count handed to run
MaxW == 2
\* largest nmaxtimeouts a caller puts into the options bag
MaxBudget == 2

(* ------------------------ program constants ---------------------------- *)

\* options.pop('nmaxtimeouts', 10)
DefaultNMaxTimeouts == 10
\* options.pop('sleep_in_seconds', 0.0)
DefaultSleep == 0

(* ---------------------------- state ------------------------------------ *)

VARIABLES
    phase,            \* "new", "ctor_error", "ready", "running", "returned", "raised"
    err,              \* the exception the last failed call raised, or "none"
    args,             \* what the caller passes to the constructor
    bag,              \* the caller's options dict (shared with the object)
    url_re,           \* self.url_re
    identifiers,      \* self.identifiers
    identifiers_urls, \* self.identifiers_urls
    save_json,        \* self.save_json
    sleep_seconds,    \* the delay self._sleep was built with
    nmaxtimeouts,     \* self.nmaxtimeouts
    results,          \* self.results
    json_files,       \* the maps dump_as_json has written
    run_arg,          \* the argument run was called with, as the caller passed it
    max_workers,      \* the argument of the current run, once run has accepted it
    workers,          \* one record per call of query_urls of the current run
    network_used      \* whether query_url has been called at all

vars == <<phase, err, args, bag, url_re, identifiers, identifiers_urls, save_json,
          sleep_seconds, nmaxtimeouts, results, json_files, run_arg, max_workers,
          workers, network_used>>

object == <<url_re, identifiers, identifiers_urls, save_json, sleep_seconds,
            nmaxtimeouts>>

(* --------------------------- input sets -------------------------------- *)

\* the identifiers a caller may list; lists may repeat an identifier
Ids == {"a", "b", "c"}

Rank(id) == CASE id = "a" -> 1 [] id = "b" -> 2 [] id = "c" -> 3

\* The model treats all identifiers alike, so the lists are taken up to a
\* renaming of the identifiers: the first new identifier of a list is "a",
\* the next new one "b", the next "c".
IdLists == {ids \in UNION {[1..n -> Ids] : n \in 0..MaxN} :
               \A i \in 1..Len(ids) :
                   \A r \in 1..(Rank(ids[i]) - 1) :
                       \E j \in 1..(i - 1) : Rank(ids[j]) = r}

\* A str template with one slot is the text before and after the slot;
\* any other Python value is tagged with its type.
StrTemplate == [t |-> "str", pre |-> "u/", post |-> ""]
DictValue == [t |-> "dict", pre |-> "", post |-> ""]
UrlReInputs == {StrTemplate, DictValue}

KeywordInputs == {"str", "int"}

SleepKey == "sleep_in_seconds"
BudgetKey == "nmaxtimeouts"

\* the option bags a caller may pass: any subset of the two recognised keys
BagInputs ==
    UNION {
        { [k \in ks |-> IF k = SleepKey THEN s ELSE b] :
              s \in {0, 1}, b \in 0..MaxBudget }
        : ks \in SUBSET {SleepKey, BudgetKey} }

\* A worker count is a Python value: an int, or something else such as the
\* float 2.0; the ints a caller may pass include zero and a negative one.
IntValue(n) == [t |-> "int", v |-> n]
FloatValue(n) == [t |-> "float", v |-> n]
NoValue == [t |-> "none", v |-> 0]

WorkerInputs == {IntValue(n) : n \in {-1, 0} \cup 1..MaxW} \cup {FloatValue(2)}

(* ------------------------- pure helpers -------------------------------- *)

Unset == "unset"

EmptyDict == [k \in {} |-> ""]

\* d[k] = v on a dict
DictSet(d, k, v) == [x \in (DOMAIN d) \cup {k} |-> IF x = k THEN v ELSE d[x]]

\* d.pop(k, default): the value
PopValue(d, k, default) == IF k \in DOMAIN d THEN d[k] ELSE default

\* d.pop(k, default): the dict afterwards
PopRest(d, k) == [x \in (DOMAIN d) \ {k} |-> d[x]]

isinstance_str(v) == v.t = "str"

\* the identifier is not put into the slot
format_without_identifier(template, identifier) == template.pre \o template.post

\* url_re.format(identifier)
format(template, identifier) == template.pre \o identifier \o template.post

\* what the server answers for a URL when the fetch succeeds
\* (response.json() of requests.get(url))
Payload(url) == "json:" \o url

RECURSIVE SumTo(_, _)
SumTo(f, n) == IF n = 0 THEN 0 ELSE f[n] + SumTo(f, n - 1)

\* ary[lo:hi] with 0-based, half-open Python bounds
Slice(ary, lo, hi) == [i \in 1..(hi - lo) |-> ary[lo + i]]

\* every section gets the quotient and the remainder is dropped
section_sizes_floor(total, n) == [i \in 1..n |-> total \div n]

\* numpy.array_split(ary, n), n > 0: the first len % n sections get one more
section_sizes(total, n) ==
    [i \in 1..n |-> IF i <= total % n THEN (total \div n) + 1 ELSE total \div n]

array_split(ary, n) ==
    LET sizes == section_sizes(Len(ary), n)
    IN  [i \in 1..n |->
            Slice(ary, SumTo(sizes, i - 1), SumTo(sizes, i))]

\* dict(zip(identifiers, urls)): a later duplicate overwrites an earlier one
RECURSIVE dict_zip(_, _)
dict_zip(keys, values) ==
    IF Len(keys) = 0 \/ Len(values) = 0 THEN EmptyDict
    ELSE LET n == IF Len(keys) < Len(values) THEN Len(keys) ELSE Len(values)
         IN  DictSet(dict_zip(SubSeq(keys, 1, n - 1), SubSeq(values, 1, n - 1)),
                     keys[n], values[n])

\* base_scraper.construct_urls: the list of formatted URLs
construct_urls(template, ids) == [i \in 1..Len(ids) |-> format(template, ids[i])]

\* a value without a format method fails on the first identifier
construct_urls_raises(template, ids) == ~isinstance_str(template) /\ Len(ids) > 0

\* base_scraper.__sleep_func: whether the delay function built blocks at all
sleep_func_blocks(sleep_in_seconds) == sleep_in_seconds > 0

\* the check of the template is left out
url_re_unchecked(template) == TRUE

\* the two type checks that open base_scraper.__init__
url_re_accepted(template) == isinstance_str(template)

keyword_accepted(keyword) == keyword = "str"

\* the type check of run is left out
max_workers_unchecked(a) == TRUE

\* run: isinstance(max_workers, int)
max_workers_accepted(a) == a.t = "int"

\* numpy.array_split refuses a number of sections that is not positive
array_split_raises(n) == n <= 0

\* the failure is not counted
count_failure_not(ntimeouts) == ntimeouts

\* ntimeouts += 1, in both except clauses
count_failure(ntimeouts) == ntimeouts + 1

\* the failures all calls of the run have counted so far
failures_of_all_calls ==
    SumTo([i \in DOMAIN workers |-> workers[i].ntimeouts], Len(workers))

\* the counter is kept on the object, where all calls of a run share it
timeout_breaks_shared(ntimeouts, max) == failures_of_all_calls + 1 > max

\* the timeout clause lets one timeout more pass
timeout_breaks_late(ntimeouts, max) == ntimeouts > max + 1

\* the timeout clause compares as the other clause does
timeout_breaks_at_max(ntimeouts, max) == ntimeouts >= max

\* except Timeout: ntimeouts += 1; if ntimeouts > self.nmaxtimeouts: break
timeout_breaks(ntimeouts, max) == ntimeouts > max

\* the other clause compares as the timeout clause does
other_breaks_above_max(ntimeouts, max) == ntimeouts > max

\* except RequestException: ntimeouts += 1; if ntimeouts >= nmaxtimeouts: break
other_breaks(ntimeouts, max) == ntimeouts >= max

\* the map is started afresh for every identifier
store_result_afresh(res, identifier, result) == [x \in {identifier} |-> result]

\* results[identifier] = result
store_result(res, identifier, result) == DictSet(res, identifier, result)

\* a failed identifier is entered with a marker
mark_identifier(res, identifier) == DictSet(res, identifier, "error")

\* both except clauses leave results alone: the identifier is skipped
skip_identifier(res, identifier) == res

\* only the map of the last worker survives
flatten_last(results_workers) ==
    IF Len(results_workers) = 0 THEN EmptyDict
    ELSE results_workers[Len(results_workers)]

\* {k: v for results_worker in results_workers for k, v in ...items()}
RECURSIVE flatten(_)
flatten(results_workers) ==
    IF Len(results_workers) = 0 THEN EmptyDict
    ELSE LET n == Len(results_workers)
             head == flatten(SubSeq(results_workers, 1, n - 1))
             last == results_workers[n]
         IN  [k \in (DOMAIN head) \cup (DOMAIN last) |->
                 IF k \in DOMAIN last THEN last[k] ELSE head[k]]

Init ==
    /\ phase = "new"
    /\ err = "none"
    /\ args \in [keyword : KeywordInputs, identifiers : IdLists,
                 url_re : UrlReInputs, save_json : BOOLEAN, options : BagInputs]
    /\ bag = args.options
    /\ url_re = Unset
    /\ identifiers = Unset
    /\ identifiers_urls = Unset
    /\ save_json = Unset
    /\ sleep_seconds = Unset
    /\ nmaxtimeouts = Unset
    /\ results = Unset
    /\ json_files = <<>>
    /\ run_arg = NoValue
    /\ max_workers = 0
    /\ workers = <<>>
    /\ network_used = FALSE

(* ------------------------- construction -------------------------------- *)

\* scraper.__init__, which calls base_scraper.__init__ and then sets
\* self.results = {} and calls the empty __setup__
ctor_raise(e) ==
    /\ phase' = "ctor_error"
    /\ err' = e

__init__ ==
    /\ phase = "new"
    /\ UNCHANGED <<args, json_files, run_arg, max_workers, workers, network_used>>
    /\ IF ~url_re_accepted(args.url_re) \/ ~keyword_accepted(args.keyword)
       THEN /\ ctor_raise("TypeError")
            /\ UNCHANGED <<bag, object, results>>
       ELSE IF construct_urls_raises(args.url_re, args.identifiers)
       THEN /\ ctor_raise("AttributeError")
            /\ url_re' = args.url_re
            /\ identifiers' = args.identifiers
            /\ UNCHANGED <<bag, identifiers_urls, save_json, sleep_seconds,
                           nmaxtimeouts, results>>
       ELSE /\ phase' = "ready"
            /\ err' = "none"
            /\ url_re' = args.url_re
            /\ identifiers' = args.identifiers
            /\ identifiers_urls' =
                   dict_zip(args.identifiers,
                            construct_urls(args.url_re, args.identifiers))
            /\ save_json' = args.save_json
            /\ sleep_seconds' = PopValue(bag, SleepKey, DefaultSleep)
            /\ nmaxtimeouts' = PopValue(bag, BudgetKey, DefaultNMaxTimeouts)
            /\ bag' = PopRest(PopRest(bag, SleepKey), BudgetKey)
            /\ results' = EmptyDict

(* ------------------------------ run ------------------------------------ *)

Terminal == {"done", "halted", "raised", "cancelled"}

\* the local state of one call of query_urls
\* (setups counts its calls of __setup__, slept its calls of self._sleep,
\* blocked the seconds those calls have held its thread)
new_worker(ids, status) ==
    [ids |-> ids, status |-> status, tools |-> Unset, setups |-> 0,
     results |-> EmptyDict, ntimeouts |-> 0, slept |-> 0, blocked |-> 0,
     log |-> <<>>]

\* scraper.__setup__ is empty: the tools of a call are None
setup_tools == "None"

\* the status of a call that has no break and no exception behind it
after_step(w, done) == IF done = Len(w.ids) THEN "done" ELSE "running"

\* query_urls up to its loop
enter_query_urls(w) ==
    [w EXCEPT !.tools = setup_tools, !.setups = @ + 1,
              !.status = after_step(w, 0)]

\* run(max_workers): the type check, then either the direct call of
\* query_urls or the submission of one call per shard to the pool
\* (a ValueError of run itself, or of array_split for a count that is not
\* positive, leaves run at once)
run(a) ==
    /\ phase = "ready"
    /\ run_arg' = a
    /\ IF ~max_workers_accepted(a) \/ (a.v # 1 /\ array_split_raises(a.v))
       THEN /\ phase' = "raised"
            /\ err' = "ValueError"
            /\ UNCHANGED <<max_workers, workers>>
       ELSE /\ phase' = "running"
            /\ err' = err
            /\ max_workers' = a.v
            /\ workers' =
                  IF a.v = 1
                  THEN <<enter_query_urls(new_worker(identifiers, "pending"))>>
                  ELSE LET input_ids == array_split(identifiers, a.v)
                       IN  [i \in 1..a.v |-> new_worker(input_ids[i], "pending")]
    /\ UNCHANGED <<args, bag, object, results, json_files, network_used>>

\* a pool thread takes its call of query_urls off the queue
start(i) ==
    /\ phase = "running"
    /\ i \in DOMAIN workers
    /\ workers[i].status = "pending"
    /\ workers' = [workers EXCEPT ![i] = enter_query_urls(@)]
    /\ UNCHANGED <<phase, err, args, bag, object, results, json_files,
                   run_arg, max_workers, network_used>>

(* ----------------------- one loop iteration ---------------------------- *)

can_fetch(i) ==
    /\ phase = "running"
    /\ i \in DOMAIN workers
    /\ workers[i].status = "running"

\* an identifier whose fetch failed is taken again
next_identifier_retry(w) ==
    IF Len(w.log) > 0 /\ w.log[Len(w.log)].outcome \in {"timeout", "other"}
    THEN w.ids[Len(w.log)]
    ELSE w.ids[Len(w.log) + 1]

\* for identifier in identifiers
next_identifier(w) == w.ids[Len(w.log) + 1]

\* the sleep stands at the end of the loop body, where only a success
\* reaches it
sleep_at_loop_end(w) ==
    IF Len(w.log) > 0 /\ w.log[Len(w.log)].outcome = "ok"
    THEN [w EXCEPT !.slept = @ + 1,
                   !.blocked = @ + IF sleep_func_blocks(sleep_seconds)
                                   THEN sleep_seconds ELSE 0]
    ELSE w

\* self._sleep(): time.sleep(sleep_in_seconds) in the calling thread, or
\* nothing
sleep_call(w) ==
    [w EXCEPT !.slept = @ + 1,
              !.blocked = @ + IF sleep_func_blocks(sleep_seconds)
                              THEN sleep_seconds ELSE 0]

\* self._sleep(); url = self.identifiers_urls[identifier]; query_url(...)
\* (slept: how often the call had slept when it made this fetch)
attempt(w, outcome) ==
    LET s == sleep_call(w)
    IN  [s EXCEPT !.log = Append(@, [identifier |-> next_identifier(w),
                                     url |-> identifiers_urls[next_identifier(w)],
                                     slept |-> s.slept,
                                     outcome |-> outcome])]

step(i, w) ==
    /\ workers' = [workers EXCEPT ![i] = w]
    /\ network_used' = TRUE
    /\ UNCHANGED <<phase, err, args, bag, object, results, json_files, run_arg,
                   max_workers>>

fetch_ok(i) ==
    /\ can_fetch(i)
    /\ LET w == attempt(workers[i], "ok")
           url == identifiers_urls[next_identifier(workers[i])]
       IN  step(i, [w EXCEPT
                      !.results = store_result(@, next_identifier(workers[i]),
                                               Payload(url)),
                      !.status = after_step(w, Len(w.log))])

fetch_timeout(i) ==
    /\ can_fetch(i)
    /\ LET w == attempt(workers[i], "timeout")
           n == count_failure(w.ntimeouts)
       IN  step(i, [w EXCEPT
                      !.ntimeouts = n,
                      !.results = skip_identifier(@, next_identifier(workers[i])),
                      !.status = IF timeout_breaks(n, nmaxtimeouts)
                                 THEN "halted"
                                 ELSE after_step(w, Len(w.log))])

fetch_other(i) ==
    /\ can_fetch(i)
    /\ LET w == attempt(workers[i], "other")
           n == count_failure(w.ntimeouts)
       IN  step(i, [w EXCEPT
                      !.ntimeouts = n,
                      !.results = skip_identifier(@, next_identifier(workers[i])),
                      !.status = IF other_breaks(n, nmaxtimeouts)
                                 THEN "halted"
                                 ELSE after_step(w, Len(w.log))])

\* an exception that is no RequestException leaves query_urls
fetch_exc(i) ==
    /\ can_fetch(i)
    /\ LET w == attempt(workers[i], "exc")
       IN  step(i, [w EXCEPT !.status = "raised"])

(* --------------------------- the pool ---------------------------------- *)

\* the first call, in shard order, whose exception list(executor.map(...))
\* meets; 0 when it has met none yet
first_raised ==
    IF \E i \in DOMAIN workers :
           /\ workers[i].status = "raised"
           /\ \A j \in 1..(i - 1) : workers[j].status \in {"done", "halted"}
    THEN CHOOSE i \in DOMAIN workers :
           /\ workers[i].status = "raised"
           /\ \A j \in 1..(i - 1) : workers[j].status \in {"done", "halted"}
    ELSE 0

\* Executor.map's result iterator cancels the calls no thread has taken yet
\* when an exception leaves it
map_cancel ==
    /\ phase = "running"
    /\ max_workers # 1
    /\ first_raised # 0
    /\ \E k \in DOMAIN workers : workers[k].status = "pending"
    /\ workers' = [k \in DOMAIN workers |->
                      IF workers[k].status = "pending"
                      THEN [workers[k] EXCEPT !.status = "cancelled"]
                      ELSE workers[k]]
    /\ UNCHANGED <<phase, err, args, bag, object, results, json_files,
                   run_arg, max_workers, network_used>>

\* the join waits for calls that ran through their whole shard only
all_done == \A i \in DOMAIN workers : workers[i].status = "done"

\* the maps are merged as soon as one call has finished
any_finished ==
    \E i \in DOMAIN workers : workers[i].status \in {"done", "halted", "raised", "cancelled"}

\* list(executor.map(...)) and the exit of the with block wait for every call
all_finished == \A i \in DOMAIN workers : workers[i].status \in Terminal

\* a halt on a used-up budget is taken for an exception too
some_raised_or_halted ==
    \E i \in DOMAIN workers : workers[i].status \in {"raised", "halted"}

\* the results of the pool are never asked for, so only the exception of
\* the direct call is met
some_raised_direct == max_workers = 1 /\ workers[1].status = "raised"

some_raised == \E i \in DOMAIN workers : workers[i].status = "raised"

\* what query_urls, or query_urls_parallel, hands back to run
collected ==
    IF max_workers = 1 THEN workers[1].results
    ELSE flatten([i \in DOMAIN workers |-> workers[i].results])

\* dump_as_json
dump_as_json(files, res) == IF save_json THEN Append(files, res) ELSE files

\* run after the scrape: self.results = results; self.dump_as_json(results)
run_returns ==
    /\ phase = "running"
    /\ all_finished
    /\ ~some_raised
    /\ phase' = "returned"
    /\ results' = collected
    /\ json_files' = dump_as_json(json_files, collected)
    /\ UNCHANGED <<err, args, bag, object, run_arg, max_workers, workers,
                   network_used>>

\* the exception of a call leaves run once the pool has shut down
run_raises ==
    /\ phase = "running"
    /\ all_finished
    /\ some_raised
    /\ phase' = "raised"
    /\ err' = "Exception"
    /\ UNCHANGED <<args, bag, object, results, json_files, run_arg, max_workers,
                   workers, network_used>>

Next ==
    \/ __init__
    \/ \E a \in WorkerInputs : run(a)
    \/ \E i \in 1..MaxW : start(i)
    \/ \E i \in 1..MaxW : fetch_ok(i)
    \/ \E i \in 1..MaxW : fetch_timeout(i)
    \/ \E i \in 1..MaxW : fetch_other(i)
    \/ \E i \in 1..MaxW : fetch_exc(i)
    \/ map_cancel
    \/ run_returns
    \/ run_raises

Spec == Init /\ [][Next]_vars

\* what happens inside run once the caller has called it: the pool's
\* threads, the fetches and the join
engine_step ==
    \/ \E i \in 1..MaxW : start(i)
    \/ \E i \in 1..MaxW : fetch_ok(i)
    \/ \E i \in 1..MaxW : fetch_timeout(i)
    \/ \E i \in 1..MaxW : fetch_other(i)
    \/ \E i \in 1..MaxW : fetch_exc(i)
    \/ map_cancel
    \/ run_returns
    \/ run_raises

\* Every thread that can take a step is scheduled in the end and every
\* fetch returns or raises in the end, so a run does not stop while a step
\* of it is possible.
FairSpec == Spec /\ WF_vars(engine_step)

(* ======================= properties of the engine ====================== *)

RECURSIVE concat(_)
concat(seqs) ==
    IF Len(seqs) = 0 THEN <<>>
    ELSE concat(SubSeq(seqs, 1, Len(seqs) - 1)) \o seqs[Len(seqs)]

started == phase \in {"running", "returned", "raised"}

parallel == started /\ max_workers > 1

\* the shards query_urls_parallel handed to the pool
shards == [i \in DOMAIN workers |-> workers[i].ids]

\* W shards of near-equal size that concatenate to the list
good_partition(parts, ids, W) ==
    /\ Len(parts) = W
    /\ concat(parts) = ids
    /\ \A i, j \in 1..W : Len(parts[i]) - Len(parts[j]) <= 1

\* C1: for a list of N identifiers and a worker count W with 1 <= W <= N,
\* the partitioning of query_urls_parallel yields exactly W contiguous
\* shards whose sizes differ by at most one and whose concatenation in
\* shard order is the list; this holds of the shards a parallel run has
\* handed to its pool and of the split for every other admissible W.
C1_Partition ==
    /\ (parallel /\ max_workers <= Len(identifiers))
          => good_partition(shards, identifiers, max_workers)
    /\ phase = "ready"
          => \A W \in 1..Len(identifiers) :
                 good_partition(array_split(identifiers, W), identifiers, W)

\* three identifiers split over two workers into shards of two and of one
C1_Witness ==
    /\ parallel
    /\ max_workers = 2
    /\ Len(identifiers) = 3
    /\ Len(shards[1]) = 2
    /\ Len(shards[2]) = 1
    /\ shards[2] = <<identifiers[3]>>

Range(seq) == {seq[i] : i \in DOMAIN seq}

distinct(seq) == \A i, j \in DOMAIN seq : seq[i] = seq[j] => i = j

\* the outcomes of the fetches call w has made so far
count(w, kinds) == Cardinality({k \in DOMAIN w.log : w.log[k].outcome \in kinds})

all_ok(w) == count(w, {"timeout", "other", "exc"}) = 0

every_fetch_succeeds == \A i \in DOMAIN workers : all_ok(workers[i])

\* what the server holds for the identifiers of a list
payloads_of(ids) == [id \in Range(ids) |-> Payload(format(url_re, id))]

\* C2: when every fetch succeeds, the map run stores is the same for every
\* worker count, under every interleaving of the workers: be it the direct
\* call of query_urls (max_workers == 1) or the merge of the shard maps,
\* it is the map from each identifier of the list to its payload.
C2_WorkerCountIndependent ==
    (phase = "returned" /\ every_fetch_succeeds)
        => results = payloads_of(identifiers)

\* two workers have fetched three distinct identifiers between them and
\* run has stored the three entries
C2_Witness ==
    /\ phase = "returned"
    /\ every_fetch_succeeds
    /\ max_workers = 2
    /\ distinct(identifiers)
    /\ Len(identifiers) = 3
    /\ Len(workers[1].log) = 2
    /\ Len(workers[2].log) = 1
    /\ Cardinality(DOMAIN results) = 3

\* C3: a call of query_urls over N distinct identifiers in which every
\* fetch succeeds returns a map of exactly N entries, one per identifier,
\* the value being the payload fetched from that identifier's URL.
C3_AllSucceed ==
    \A i \in DOMAIN workers :
        LET w == workers[i]
        IN  (w.status = "done" /\ all_ok(w) /\ distinct(w.ids))
                => /\ Cardinality(DOMAIN w.results) = Len(w.ids)
                   /\ DOMAIN w.results = Range(w.ids)
                   /\ \A k \in DOMAIN w.ids :
                          /\ w.log[k].identifier = w.ids[k]
                          /\ w.log[k].url = format(url_re, w.ids[k])
                          /\ w.results[w.ids[k]] = Payload(w.log[k].url)

\* one call has fetched three distinct identifiers
C3_Witness ==
    /\ started
    /\ max_workers = 1
    /\ workers[1].status = "done"
    /\ all_ok(workers[1])
    /\ distinct(workers[1].ids)
    /\ Len(workers[1].ids) = 3
    /\ Cardinality(DOMAIN workers[1].results) = 3

\* the identifiers call w has fetched successfully so far
fetched(w) == {w.log[k].identifier : k \in {j \in DOMAIN w.log : w.log[j].outcome = "ok"}}

\* the number of failures of the given kinds among the first n fetches of w
failures_in(w, n, kinds) ==
    Cardinality({k \in 1..n : w.log[k].outcome \in kinds})

\* the fetches of w follow its shard position by position
in_order(w) ==
    /\ Len(w.log) <= Len(w.ids)
    /\ \A k \in DOMAIN w.log : w.log[k].identifier = w.ids[k]

\* C4: in a shard whose only failures are timeouts, with a budget max >= 0,
\* the shard halts exactly when its (max+1)-th timeout occurs: up to max
\* timeouts each skip their own identifier only and the loop goes on, no
\* fetch is ever made after the (max+1)-th, and what lies behind the
\* halting identifier is never attempted and gets no entry in the map.
C4_TimeoutHalt ==
    \A i \in DOMAIN workers :
        LET w == workers[i]
            T == count(w, {"timeout"})
        IN  (nmaxtimeouts >= 0 /\ count(w, {"other", "exc"}) = 0
                 /\ w.status \in {"running", "done", "halted"})
                => /\ in_order(w)
                   /\ w.status = "halted" <=> T = nmaxtimeouts + 1
                   /\ w.status = "halted" => w.log[Len(w.log)].outcome = "timeout"
                   /\ \A k \in 1..(Len(w.log) - 1) :
                          failures_in(w, k, {"timeout"}) <= nmaxtimeouts
                   /\ w.status = "done" => Len(w.log) = Len(w.ids)
                   /\ DOMAIN w.results = fetched(w)

\* with a budget of 1 the second timeout halts a shard of three identifiers
\* at its second, after the first timeout was survived
C4_Witness ==
    /\ started
    /\ nmaxtimeouts = 1
    /\ \E i \in DOMAIN workers :
           /\ workers[i].status = "halted"
           /\ Len(workers[i].ids) = 3
           /\ Len(workers[i].log) = 2
           /\ count(workers[i], {"timeout"}) = 2
           /\ workers[i].ids[3] \notin DOMAIN workers[i].results

\* C5: in a shard whose only failures are transport failures that are no
\* timeouts, with a budget max >= 1, the shard halts exactly when its
\* max-th failure occurs: the failures before it each skip their own
\* identifier only, no fetch is ever made after the max-th, and what lies
\* behind the halting identifier is never attempted and gets no entry.
C5_OtherHalt ==
    \A i \in DOMAIN workers :
        LET w == workers[i]
            F == count(w, {"other"})
        IN  (nmaxtimeouts >= 1 /\ count(w, {"timeout", "exc"}) = 0
                 /\ w.status \in {"running", "done", "halted"})
                => /\ in_order(w)
                   /\ w.status = "halted" <=> F = nmaxtimeouts
                   /\ w.status = "halted" => w.log[Len(w.log)].outcome = "other"
                   /\ \A k \in 1..(Len(w.log) - 1) :
                          failures_in(w, k, {"other"}) < nmaxtimeouts
                   /\ w.status = "done" => Len(w.log) = Len(w.ids)
                   /\ DOMAIN w.results = fetched(w)

\* with a budget of 2 the second failure halts a shard of three identifiers
\* at its second, after the first failure was survived
C5_Witness ==
    /\ started
    /\ nmaxtimeouts = 2
    /\ \E i \in DOMAIN workers :
           /\ workers[i].status = "halted"
           /\ Len(workers[i].ids) = 3
           /\ Len(workers[i].log) = 2
           /\ count(workers[i], {"other"}) = 2
           /\ workers[i].ids[3] \notin DOMAIN workers[i].results

\* the budget of call w is used up by its own failures
own_exhausted(w) ==
    /\ Len(w.log) > 0
    /\ LET last == w.log[Len(w.log)].outcome
           F == count(w, {"timeout", "other"})
       IN  \/ last = "timeout" /\ F > nmaxtimeouts
           \/ last = "other" /\ F >= nmaxtimeouts

\* C6: in a parallel run each shard enforces its own budget: a shard counts
\* its own failures only and halts on them alone, so a halted shard
\* neither stops nor shortens a sibling under any interleaving: when run
\* returns every sibling has either gone through its whole shard or halted
\* on its own failures, and every identifier a shard fetched successfully
\* before its own halt is in the final map with its payload.
C6_OwnBudget ==
    parallel =>
        \A i \in DOMAIN workers :
            LET w == workers[i]
            IN  /\ w.ntimeouts = count(w, {"timeout", "other"})
                /\ w.status = "halted" <=> own_exhausted(w)
                /\ phase = "returned" =>
                      /\ \/ w.status = "done" /\ Len(w.log) = Len(w.ids)
                         \/ w.status = "halted"
                      /\ \A id \in fetched(w) :
                             /\ id \in DOMAIN results
                             /\ results[id] = Payload(format(url_re, id))

\* the first shard halted on its first identifier, its sibling fetched its
\* own shard to the end, and run returned the sibling's entry
C6_Witness ==
    /\ phase = "returned"
    /\ max_workers = 2
    /\ distinct(identifiers)
    /\ workers[1].status = "halted"
    /\ Len(workers[1].log) < Len(workers[1].ids)
    /\ workers[2].status = "done"
    /\ Len(workers[2].log) > 0
    /\ all_ok(workers[2])
    /\ DOMAIN results = Range(workers[2].ids)

\* C7: in every state of a call of query_urls the keys of its map are
\* exactly the identifiers of its shard fetched successfully so far, each
\* with its payload: an identifier that timed out, failed otherwise or was
\* not attempted yet has no entry of its own, and no entry holds an error
\* marker in place of a payload.
C7_ResultKeys ==
    \A i \in DOMAIN workers :
        LET w == workers[i]
        IN  /\ in_order(w)
            /\ DOMAIN w.results = fetched(w)
            /\ \A id \in DOMAIN w.results :
                   w.results[id] = Payload(format(url_re, id))

\* a call over three distinct identifiers has fetched the first, has met a
\* failure at the second and has not attempted the third
C7_Witness ==
    /\ started
    /\ \E i \in DOMAIN workers :
           /\ workers[i].status = "running"
           /\ distinct(workers[i].ids)
           /\ Len(workers[i].ids) = 3
           /\ Len(workers[i].log) = 2
           /\ workers[i].log[1].outcome = "ok"
           /\ workers[i].log[2].outcome \in {"timeout", "other"}
           /\ DOMAIN workers[i].results = {workers[i].ids[1]}

some_halted == \E i \in DOMAIN workers : workers[i].status = "halted"

some_exc == \E i \in DOMAIN workers : count(workers[i], {"exc"}) > 0

\* C8: a used-up budget is never surfaced as an error: whenever shards
\* have halted on their budget and no fetch raised an exception outside
\* the transport's, run does not raise; once all calls are finished it can
\* only return, and having returned it has stored the truncated map (the
\* identifiers fetched before the halts) on the object and has written it
\* as JSON if and only if save_json is set.
C8_ExhaustionSilent ==
    (some_halted /\ ~some_exc) =>
        /\ phase # "raised"
        /\ err = "none"
        /\ (phase = "running" /\ all_finished)
              => ENABLED run_returns /\ ~ENABLED run_raises
        /\ phase = "returned" =>
              /\ results = collected
              /\ DOMAIN results = UNION {fetched(workers[i]) : i \in DOMAIN workers}
              /\ json_files = IF save_json THEN <<results>> ELSE <<>>

\* run has returned and dumped a map that lacks the identifiers behind a halt
C8_Witness ==
    /\ phase = "returned"
    /\ ~some_exc
    /\ distinct(identifiers)
    /\ \E i \in DOMAIN workers :
           /\ workers[i].status = "halted"
           /\ Len(workers[i].log) < Len(workers[i].ids)
           /\ workers[i].ids[Len(workers[i].ids)] \notin DOMAIN results
    /\ DOMAIN results # {}
    /\ save_json = TRUE
    /\ json_files = <<results>>

bad_worker_count ==
    /\ run_arg # NoValue
    /\ run_arg.t # "int" \/ run_arg.v <= 0

\* C11: for a worker count that is no integer, that is zero or that is
\* negative, run fails with a ValueError before any call of query_urls is
\* set up and before any fetch, and leaves self.results as it was and no
\* file written.
C11_WorkerCountRejected ==
    bad_worker_count =>
        /\ phase = "raised"
        /\ err = "ValueError"
        /\ workers = <<>>
        /\ ~network_used
        /\ results = EmptyDict
        /\ json_files = <<>>

\* run has refused a worker count of zero for three identifiers
C11_Witness ==
    /\ phase = "raised"
    /\ run_arg = IntValue(0)
    /\ Len(identifiers) = 3
    /\ save_json = TRUE
    /\ err = "ValueError"

\* the k-th fetch of call w is a failure that uses up the budget
halting_at(w, k) ==
    LET F == failures_in(w, k, {"timeout", "other"})
    IN  \/ w.log[k].outcome = "timeout" /\ F > nmaxtimeouts
        \/ w.log[k].outcome = "other" /\ F >= nmaxtimeouts

\* C12: the budget of a shard is one counter for both kinds of failure:
\* it is the number of timeouts and generic failures met so far (each adds
\* one, a success adds nothing), a timeout halts the shard if and only if
\* the counter then exceeds max, a generic failure if and only if the
\* counter then is at least max, whatever the order of the two kinds.
C12_SharedCounter ==
    \A i \in DOMAIN workers :
        LET w == workers[i]
        IN  /\ w.ntimeouts = count(w, {"timeout", "other"})
            /\ w.status = "halted" => Len(w.log) > 0
            /\ \A k \in DOMAIN w.log :
                   halting_at(w, k) <=> (k = Len(w.log) /\ w.status = "halted")

\* with a budget of 2, a timeout and then a generic failure halt a shard of
\* three identifiers at its second, where two timeouts would not have
C12_Witness ==
    /\ started
    /\ nmaxtimeouts = 2
    /\ \E i \in DOMAIN workers :
           /\ workers[i].status = "halted"
           /\ Len(workers[i].ids) = 3
           /\ Len(workers[i].log) = 2
           /\ workers[i].log[1].outcome = "timeout"
           /\ workers[i].log[2].outcome = "other"
           /\ workers[i].ntimeouts = 2

\* C13: within a shard the identifiers are attempted strictly in input
\* order and each at most once: the k-th fetch of a call is the fetch of
\* the k-th identifier of its shard, so a failed identifier is skipped and
\* not taken again, and a fetch follows another only if that one ended in
\* a success or in a failure that did not halt the shard.
C13_InOrderOnce ==
    \A i \in DOMAIN workers :
        LET w == workers[i]
        IN  /\ Len(w.log) <= Len(w.ids)
            /\ \A k \in DOMAIN w.log : w.log[k].identifier = w.ids[k]
            /\ \A k \in 1..(Len(w.log) - 1) :
                   /\ w.log[k].outcome \in {"ok", "timeout", "other"}
                   /\ ~halting_at(w, k)

\* a call went through three distinct identifiers: a timeout at the first,
\* a success at the second, then the third
C13_Witness ==
    /\ started
    /\ \E i \in DOMAIN workers :
           /\ distinct(workers[i].ids)
           /\ Len(workers[i].ids) = 3
           /\ Len(workers[i].log) = 3
           /\ workers[i].log[1].outcome = "timeout"
           /\ workers[i].log[2].outcome = "ok"
           /\ workers[i].log[3].identifier = workers[i].ids[3]
           /\ workers[i].ids[1] \notin DOMAIN workers[i].results

\* C14: in a parallel run the merge happens only after every worker has
\* completed or halted: until run returns nothing is stored or written,
\* and once it has, every call is done or halted and the stored map is
\* exactly the key union of the shard maps: every shard entry is in it
\* with its value, it has no other key, and for distinct identifiers no
\* key is in two shard maps.
C14_MergeAfterAll ==
    parallel =>
        /\ phase = "running" => results = EmptyDict /\ json_files = <<>>
        /\ phase = "returned" =>
              /\ \A i \in DOMAIN workers : workers[i].status \in {"done", "halted"}
              /\ DOMAIN results = UNION {DOMAIN workers[i].results : i \in DOMAIN workers}
              /\ distinct(identifiers) =>
                     /\ \A i \in DOMAIN workers :
                            \A k \in DOMAIN workers[i].results :
                                results[k] = workers[i].results[k]
                     /\ \A i, j \in DOMAIN workers :
                            i # j => DOMAIN workers[i].results
                                         \cap DOMAIN workers[j].results = {}

\* two shards of distinct identifiers, the first with a success and a
\* timeout, the second with a success: the stored map is the two entries
C14_Witness ==
    /\ phase = "returned"
    /\ max_workers = 2
    /\ distinct(identifiers)
    /\ Len(identifiers) = 3
    /\ Cardinality(DOMAIN workers[1].results) = 1
    /\ count(workers[1], {"timeout"}) = 1
    /\ Cardinality(DOMAIN workers[2].results) = 1
    /\ Cardinality(DOMAIN results) = 2

\* what tools would be once a release of them had run; query_urls has no
\* statement that sets it
Released == "released"

\* C15: each worker acquires its own tools through one call of setup at
\* the start of its shard and releases them when its shard is over, on
\* every exit path: normal completion, a halt on a used-up budget and an
\* exception that leaves the call.
C15_ToolsReleased ==
    \A i \in DOMAIN workers :
        LET w == workers[i]
        IN  /\ w.status \in {"pending", "cancelled"}
                  => w.setups = 0 /\ w.tools = Unset
            /\ w.status = "running" => w.setups = 1 /\ w.tools = setup_tools
            /\ w.status \in {"done", "halted", "raised"}
                  => w.setups = 1 /\ w.tools = Released

\* C16: the sleep policy is invoked exactly once before every fetch of a
\* shard, the first one and those after a failure included, and never
\* after the last: a call had slept k times when it made its k-th fetch
\* and has slept as often as it has fetched; with sleep_in_seconds > 0 each
\* invocation holds the calling worker alone for that long, with 0 or no
\* sleep_in_seconds it holds nobody.
C16_SleepBeforeFetch ==
    /\ started => sleep_seconds =
                     IF SleepKey \in DOMAIN args.options
                     THEN args.options[SleepKey] ELSE 0
    /\ \A i \in DOMAIN workers :
           LET w == workers[i]
           IN  /\ w.slept = Len(w.log)
               /\ \A k \in DOMAIN w.log : w.log[k].slept = k
               /\ w.blocked = IF sleep_seconds > 0
                              THEN Len(w.log) * sleep_seconds ELSE 0

\* with a delay of one second a call has slept before a fetch that timed
\* out and again before the next one
C16_Witness ==
    /\ started
    /\ sleep_seconds = 1
    /\ \E i \in DOMAIN workers :
           /\ Len(workers[i].ids) = 3
           /\ Len(workers[i].log) = 2
           /\ workers[i].log[1].outcome = "timeout"
           /\ workers[i].log[2].slept = 2
           /\ workers[i].blocked = 2

constructed == phase \in {"ready", "running", "returned", "raised"}

\* C17: the identifier-to-URL cache is fixed at construction and only read
\* afterwards: in every state from then on it maps each identifier of the
\* list handed to the constructor to the template handed to the
\* constructor with the identifier in its slot, whatever run, query_urls
\* and the workers have done, and every fetch of an identifier has gone to
\* that URL.
C17_CacheReadOnly ==
    constructed =>
        /\ url_re = args.url_re
        /\ identifiers = args.identifiers
        /\ DOMAIN identifiers_urls = Range(args.identifiers)
        /\ \A id \in DOMAIN identifiers_urls :
               identifiers_urls[id] = args.url_re.pre \o id \o args.url_re.post
        /\ \A i \in DOMAIN workers :
               \A k \in DOMAIN workers[i].log :
                   workers[i].log[k].url =
                       identifiers_urls[workers[i].log[k].identifier]

\* after a parallel run that fetched three distinct identifiers the cache
\* still holds the three URLs
C17_Witness ==
    /\ phase = "returned"
    /\ max_workers = 2
    /\ Len(identifiers) = 3
    /\ distinct(identifiers)
    /\ \A i \in 1..2 : Len(workers[i].log) = Len(workers[i].ids)
    /\ identifiers_urls["a"] = "u/a"
    /\ identifiers_urls["b"] = "u/b"
    /\ identifiers_urls["c"] = "u/c"

\* C18: for a budget max >= 0 the failure counter of a call that is still
\* processing its shard is at most max, and over a whole shard no more
\* than max + 1 fetches fail, exceptions that leave the call included.
C18_CounterBounded ==
    \A i \in DOMAIN workers :
        LET w == workers[i]
        IN  nmaxtimeouts >= 0 =>
                /\ w.status = "running" => w.ntimeouts <= nmaxtimeouts
                /\ count(w, {"timeout", "other", "exc"}) <= nmaxtimeouts + 1

\* a call with a budget of 2 goes on after its second timeout
C18_Witness ==
    /\ phase = "running"
    /\ nmaxtimeouts = 2
    /\ \E i \in DOMAIN workers :
           /\ workers[i].status = "running"
           /\ workers[i].ntimeouts = 2
           /\ count(workers[i], {"timeout"}) = 2

\* C19: given that every single fetch returns or raises in the end, every
\* run over a finite list ends for every worker count >= 1: a run that is
\* under way returns or raises in the end, by then no call has made more
\* fetches than its shard has identifiers, and when the run returns every
\* shard has reached completion or its halt.
C19_Terminates ==
    (phase = "running")
        ~> /\ phase \in {"returned", "raised"}
           /\ \A i \in DOMAIN workers : Len(workers[i].log) <= Len(workers[i].ids)
           /\ phase = "returned"
                 => \A i \in DOMAIN workers : workers[i].status \in {"done", "halted"}

\* a parallel run over three identifiers has returned, one shard halted
\* before its end and the other gone through
C19_Witness ==
    /\ phase = "returned"
    /\ max_workers = 2
    /\ Len(identifiers) = 3
    /\ workers[1].status = "halted"
    /\ Len(workers[1].log) = 1
    /\ workers[2].status = "done"
    /\ Len(workers[2].log) = 1

\* what a further scraper constructed from the caller's bag, as the bag is
\* now, gets as its sleep delay and as its failure budget
sleep_of_next_scraper == PopValue(bag, SleepKey, DefaultSleep)
budget_of_next_scraper == PopValue(bag, BudgetKey, DefaultNMaxTimeouts)

\* C20: construction leaves the caller's options bag as it was passed, so a
\* scraper constructed next from the same bag gets the same sleep delay and
\* the same failure budget as this one.
C20_BagUnchanged ==
    phase = "ready" =>
        /\ bag = args.options
        /\ sleep_of_next_scraper = sleep_seconds
        /\ budget_of_next_scraper = nmaxtimeouts

====
